---------------------------- MODULE Spec2Model ----------------------------
(***************************************************************************)
(* A model of src/main.py, the Streamlit finance dashboard.                *)
(*                                                                         *)
(* One script run (a Streamlit rerun) is one action: the run loads the     *)
(* ledger through load_data, dispatches on the sidebar choice through the  *)
(* script's if/elif chain and leaves what the page displayed in `out'.     *)
(* load_data is wrapped in st.cache_data, whose store outlives the runs.   *)
(*                                                                         *)
(* Cells of the ledger are nullable: Null is a missing cell (NaN, NaT,     *)
(* None) and Some(v) a present one.  Timestamps are counted in ticks,      *)
(* TicksPerDay ticks to a calendar day.  Text is a TLA+ string, on which   *)
(* str.lower and str.contains are computed character by character.         *)
(***************************************************************************)
EXTENDS Integers, Sequences, FiniteSets, TLC

VARIABLES
    fileExists,   \* os.path.exists(EXCEL_FILE)
    ledger,       \* the table stored in data/accounts.xlsx: [cols, rows]
    today,        \* pd.Timestamp.today() / datetime.today(), in ticks
    out,          \* what the last run loaded, displayed and left in df
    cache,        \* the st.cache_data entry of load_data, Null before the first call
    reads,        \* how many times pd.read_excel has read the file
    first         \* what the first call of load_data returned, Null before it

vars == <<fileExists, ledger, today, out, cache, reads, first>>

-----------------------------------------------------------------------------
(* Bounds of the model *)

MaxRows == 2        \* rows of a ledger
TicksPerDay == 2    \* resolution of the time of day
TodayDay == 100     \* the calendar day of today
DaysPerMonth == 2   \* days of a calendar month

-----------------------------------------------------------------------------
(* Nullable cells *)

Null == <<>>
Some(v) == <<v>>
IsNull(c) == Len(c) = 0
NotNull(c) == Len(c) = 1
Val(c) == c[1]

(* A cell of a numeric column that holds text no number can be read from *)
Unparseable == <<0, "text">>
IsText(c) == Len(c) = 2

(* Series.sum() of a numeric column: missing cells are skipped (skipna=True). *)
(* The pages either coerce the column first, which turns text into 0, or sum  *)
(* it as it is; those check HasText before they sum                           *)
RECURSIVE SumCol(_, _)
SumCol(rows, col) ==
    IF Len(rows) = 0 THEN 0
    ELSE (IF NotNull(Head(rows)[col]) THEN Val(Head(rows)[col]) ELSE 0)
         + SumCol(Tail(rows), col)

(* The column holds text in some row *)
HasText(rows, col) == \E i \in 1..Len(rows) : IsText(rows[i][col])

(* Series.sum() of an object column that holds text: text and numbers do not *)
(* add (TypeError); text alone concatenates and the metric's number format   *)
(* then rejects the string (ValueError)                                      *)
SumError(rows, col) ==
    IF \A i \in 1..Len(rows) : IsText(rows[i][col]) THEN "ValueError" ELSE "TypeError"

(* Series.count(): the number of non-missing cells *)
CountCol(rows, col) == Len(SelectSeq(rows, LAMBDA r : NotNull(r[col])))

(* pd.to_numeric(..., errors='coerce').fillna(0) on one cell *)
FillZero(c) == IF IsNull(c) \/ IsText(c) THEN Some(0) ELSE c

-----------------------------------------------------------------------------
(* Text: str.lower() and str.contains() *)

UpperAlpha == "ABCDEFGHIJKLMNOPQRSTUVWXYZ"
LowerAlpha == "abcdefghijklmnopqrstuvwxyz"

(* The lower-case letter of each upper-case letter *)
ToLower ==
    [c \in {SubSeq(UpperAlpha, i, i) : i \in 1..Len(UpperAlpha)} |->
        LET i == CHOOSE j \in 1..Len(UpperAlpha) : SubSeq(UpperAlpha, j, j) = c
        IN  SubSeq(LowerAlpha, i, i)]

LowerChar(c) == IF c \in DOMAIN ToLower THEN ToLower[c] ELSE c

RECURSIVE Lower(_)
Lower(s) ==
    IF Len(s) = 0 THEN ""
    ELSE LowerChar(SubSeq(s, 1, 1)) \o Lower(SubSeq(s, 2, Len(s)))

(* re.search of a literal pattern: pat occurs in s *)
Contains(s, pat) ==
    \E i \in 1..(Len(s) - Len(pat) + 1) : SubSeq(s, i, i + Len(pat) - 1) = pat

(* str.contains("a|b|..."): one of the alternatives occurs in s *)
ContainsAny(s, pats) == \E p \in pats : Contains(s, p)

(* str.contains("a|b", case=False, na=False) on a nullable text cell *)
ContainsNoCase(c, pats) ==
    /\ NotNull(c)
    /\ \E p \in pats : Contains(Lower(Val(c)), Lower(p))

-----------------------------------------------------------------------------
(* Dates *)

(* Timestamp.date() / Series.dt.date: the calendar day of a timestamp *)
DateOf(t) == t \div TicksPerDay

(* pd.to_datetime(a datetime.date): midnight of that day *)
Midnight(d) == d * TicksPerDay

(* Timedelta.days: whole days, rounded towards minus infinity *)
DaysOf(delta) == delta \div TicksPerDay

(* Series.dt.to_period('M'): the calendar month of a timestamp; the months  *)
(* of the model all have DaysPerMonth days                                  *)
MonthOf(t) == DateOf(t) \div DaysPerMonth

(* Series.dt.year *)
YearOf(t) == MonthOf(t) \div 12

(* Series.dt.day_name(), as the number of the day in its week *)
DayOfWeek(t) == DateOf(t) % 7

-----------------------------------------------------------------------------
(* The ledger *)

Columns ==
    {"voucher_no", "date", "payment_date", "due_date",
     "debit", "credit", "amount", "bank_deposit", "bank_withdrawal",
     "category", "sub_category", "account_head", "account_name",
     "account_type", "party_name", "party_type", "payment_method", "status",
     "particulars", "payable", "receivedable"}

(* A row with every cell missing; the ledgers of the model override cells *)
BlankRow == [c \in Columns |-> Null]

(* pd.DataFrame(): no columns, no rows *)
EmptyFrame == [cols |-> {}, order |-> <<>>, rows |-> <<>>]

(* The columns in the order the sheets of the model list them *)
ColumnOrder ==
    <<"voucher_no", "date", "payment_date", "due_date",
      "debit", "credit", "amount", "bank_deposit", "bank_withdrawal",
      "category", "sub_category", "account_head", "account_name",
      "account_type", "party_name", "party_type", "payment_method", "status",
      "particulars", "payable", "receivedable">>

(* A table read from a sheet with the columns `cols', left to right in      *)
(* ColumnOrder: cols is df.columns as a set, order df.columns as a list     *)
Sheet(cols, rows) ==
    [cols |-> cols, order |-> SelectSeq(ColumnOrder, LAMBDA c : c \in cols), rows |-> rows]

(* DataFrame.empty: an axis of length 0 *)
IsEmpty(frame) == frame.cols = {} \/ Len(frame.rows) = 0

(* df[col] = pd.to_numeric(df[col], errors='coerce').fillna(0) for each of  *)
(* `cols' that is a column of the frame                                     *)
Coerced(frame, cols) ==
    [frame EXCEPT !.rows =
        [i \in 1..Len(frame.rows) |->
            [c \in DOMAIN frame.rows[i] |->
                IF c \in cols \cap frame.cols
                THEN FillZero(frame.rows[i][c]) ELSE frame.rows[i][c]]]]

(* df[name] = f(row): the column is added, or overwritten where it exists *)
WithColumn(frame, name, f(_)) ==
    [cols |-> frame.cols \cup {name},
     order |-> IF name \in frame.cols THEN frame.order ELSE Append(frame.order, name),
     rows |-> [i \in 1..Len(frame.rows) |->
                 IF name \in DOMAIN frame.rows[i]
                 THEN [frame.rows[i] EXCEPT ![name] = f(frame.rows[i])]
                 ELSE (name :> f(frame.rows[i])) @@ frame.rows[i]]]

(* All sequences over S of length 0..n *)
SeqUpTo(S, n) == UNION {[1..k -> S] : k \in 0..n}

-----------------------------------------------------------------------------
(* What a run displays *)

(* st.error / st.warning / st.info / st.success; cols are the column names  *)
(* the text spells out                                                      *)
MsgCols(kind, text, cols) == [kind |-> kind, text |-> text, cols |-> cols]
Msg(kind, text) == MsgCols(kind, text, {})

NoArgs ==
    [date_range |-> <<>>, start_date |-> Null, end_date |-> Null, prophet |-> "ok",
     party_filter |-> Null]

NoOut ==
    [choice |-> "", args |-> NoArgs, branch |-> "", exc |-> "", stopped |-> FALSE,
     msgs |-> {}, hasView |-> FALSE, view |-> <<>>,
     loaded |-> EmptyFrame, df |-> EmptyFrame, disk |-> EmptyFrame]

(* Of a run, `loaded' is the table load_data returned to it, `df' the table *)
(* its page left in the module's df, and `disk' the table the file held     *)
(* while it ran                                                             *)

(* A run that reached the end of `branch' having displayed `view' *)
Shown(branch, msgs, view) ==
    [NoOut EXCEPT !.branch = branch, !.msgs = msgs, !.hasView = TRUE, !.view = view]

(* A run that reached the end of `branch' with messages only *)
Told(branch, msgs) == [NoOut EXCEPT !.branch = branch, !.msgs = msgs]

(* A run ended by st.stop() *)
Stopped(branch, msgs) ==
    [NoOut EXCEPT !.branch = branch, !.msgs = msgs, !.stopped = TRUE]

(* A run ended by an exception nothing catches, before anything was shown *)
Raised(branch, exc, msgs) ==
    [NoOut EXCEPT !.branch = branch, !.msgs = msgs, !.exc = exc]

(* A run ended by an uncaught exception after `view' was displayed *)
RaisedAfter(branch, exc, msgs, view) ==
    [NoOut EXCEPT !.branch = branch, !.msgs = msgs, !.exc = exc,
                  !.hasView = TRUE, !.view = view]

(* The page of `branch' displayed its metrics *)
Rendered(o, branch) == o.branch = branch /\ o.hasView

-----------------------------------------------------------------------------
(* load_data *)

LoadErrorMsg == Msg("error", "Excel file not found: data/accounts.xlsx")

(* load_data(): the parsed table, or an empty DataFrame and an error message *)
load_data(exists, table) ==
    IF exists THEN [frame |-> table, msgs |-> {}]
    ELSE [frame |-> EmptyFrame, msgs |-> {LoadErrorMsg}]

(* Mutant: the decorator left off, every call runs load_data *)
st_cache_data_off(store, exists, table) ==
    [result |-> load_data(exists, table), store |-> store, ran |-> TRUE]

(* @st.cache_data on a function without arguments: the first call runs the  *)
(* function and stores what it returned and displayed; every later call     *)
(* returns a copy of the stored value and replays the stored messages       *)
st_cache_data(store, exists, table) ==
    IF NotNull(store)
    THEN [result |-> Val(store), store |-> store, ran |-> FALSE]
    ELSE [result |-> load_data(exists, table),
          store |-> Some(load_data(exists, table)), ran |-> TRUE]

-----------------------------------------------------------------------------
(* Displayed quotients *)

(* n / d on numpy floats: a zero divisor gives inf or nan, never an exception *)
Div(n, d) ==
    IF d # 0 THEN [kind |-> "num", num |-> n, den |-> d]
    ELSE IF n = 0 THEN [kind |-> "nan", num |-> 0, den |-> 0]
    ELSE [kind |-> "inf", num |-> n, den |-> 0]

(* float('inf') *)
FloatInf == [kind |-> "inf", num |-> 1, den |-> 0]

(* A literal the page displays in place of a number *)
Text(t) == [kind |-> t, num |-> 0, den |-> 1]

-----------------------------------------------------------------------------
(* Receivables: the aging report *)

AgingEdges == <<-1, 0, 30, 60, 90>>
AgingLabels == <<"Not Due", "0-30 Days", "31-60 Days", "61-90 Days", "90+ Days">>

(* Mutant: left-closed intervals, as pd.cut(..., right=False) *)
CutLeftClosed(x, edges, labels) ==
    IF IsNull(x) THEN Null
    ELSE LET hit == {i \in 1..Len(edges) :
                        /\ edges[i] <= Val(x)
                        /\ (i = Len(edges) \/ Val(x) < edges[i + 1])}
         IN  IF hit = {} THEN Null ELSE Some(labels[CHOOSE i \in hit : TRUE])

(* pd.cut(x, bins=edges + [inf], labels=labels): the right-closed interval   *)
(* (edges[i], edges[i+1]] that holds x names its label; outside every        *)
(* interval, and for a missing x, the result is missing                      *)
Cut(x, edges, labels) ==
    IF IsNull(x) THEN Null
    ELSE LET hit == {i \in 1..Len(edges) :
                        /\ edges[i] < Val(x)
                        /\ (i = Len(edges) \/ Val(x) <= edges[i + 1])}
         IN  IF hit = {} THEN Null ELSE Some(labels[CHOOSE i \in hit : TRUE])

(* Mutant: a missing due_date counted as due today *)
DaysOverdueFilled(row, now) ==
    IF IsNull(row.due_date) THEN Some(0) ELSE Some(DaysOf(now - Val(row.due_date)))

(* (today - due_date).dt.days *)
DaysOverdue(row, now) ==
    IF IsNull(row.due_date) THEN Null ELSE Some(DaysOf(now - Val(row.due_date)))

aging_bucket(days) == Cut(days, AgingEdges, AgingLabels)

(* The mask of receivable_df on one row: a customer whose status holds      *)
(* neither 'received' nor 'paid'                                            *)
IsReceivable(row) ==
    /\ Contains(Lower(Val(row.party_type)), "customer")
    /\ ~ContainsAny(Lower(Val(row.status)), {"received", "paid"})

(* receivable_df with its two derived columns *)
WithAging(row, now) ==
    LET d == DaysOverdue(row, now)
    IN  row @@ [days_overdue |-> d, aging_bucket |-> aging_bucket(d)]

(* receivable_df.groupby('aging_bucket').agg(amount=sum, count=count of     *)
(* voucher_no): one row per category, rows with a missing bucket dropped    *)
aging_summary(rdf) ==
    [l \in {AgingLabels[i] : i \in 1..Len(AgingLabels)} |->
        LET grp == SelectSeq(rdf, LAMBDA r : r.aging_bucket = Some(l))
        IN  [amount |-> SumCol(grp, "amount"),
             count |-> CountCol(grp, "voucher_no")]]

(* Mutant: rows due today counted as overdue *)
ReceivablesViewFromZero(rdf) ==
    LET total_receivable == SumCol(rdf, "amount")
        overdue == SelectSeq(rdf, LAMBDA r :
                       NotNull(r.days_overdue) /\ Val(r.days_overdue) >= 0)
        overdue_amount == SumCol(overdue, "amount")
    IN  [receivable_df |-> rdf,
         total_receivable |-> total_receivable,
         overdue_amount |-> overdue_amount,
         overdue_delta |-> IF total_receivable > 0
                           THEN Div(overdue_amount, total_receivable)
                           ELSE Text("N/A"),
         unpaid_invoices |-> Len(rdf),
         aging_summary |-> aging_summary(rdf)]

ReceivablesView(rdf) ==
    LET total_receivable == SumCol(rdf, "amount")
        overdue == SelectSeq(rdf, LAMBDA r :
                       NotNull(r.days_overdue) /\ Val(r.days_overdue) > 0)
        overdue_amount == SumCol(overdue, "amount")
    IN  [receivable_df |-> rdf,
         total_receivable |-> total_receivable,
         overdue_amount |-> overdue_amount,
         overdue_delta |-> IF total_receivable > 0
                           THEN Div(overdue_amount, total_receivable)
                           ELSE Text("N/A"),
         unpaid_invoices |-> Len(rdf),
         aging_summary |-> aging_summary(rdf)]

ReceivablesPage(frame, now) ==
    IF ~({"party_type", "status", "amount"} \subseteq frame.cols)
    THEN Stopped("Receivables",
            {MsgCols("error", "Required columns (party_type, status, amount) not found in dataset",
                     {"party_type", "status", "amount"})})
    ELSE IF \E i \in 1..Len(frame.rows) :
                IsNull(frame.rows[i].party_type) \/ IsNull(frame.rows[i].status)
    THEN Raised("Receivables", "TypeError", {})
    ELSE LET rows == SelectSeq(frame.rows, IsReceivable)
         IN  IF Len(rows) = 0
             THEN Stopped("Receivables",
                     {Msg("success", "No outstanding receivables. All customer payments are received.")})
             ELSE IF ~({"due_date", "voucher_no", "party_name"} \subseteq frame.cols)
             THEN Raised("Receivables", "KeyError", {})
             ELSE IF HasText(rows, "amount")
             THEN Raised("Receivables", SumError(rows, "amount"), {})
             ELSE Shown("Receivables", {},
                     ReceivablesView([i \in 1..Len(rows) |-> WithAging(rows[i], now)]))

-----------------------------------------------------------------------------
(* Steps the report pages share *)

(* len(date_range) == 2: keep the rows whose calendar day lies in            *)
(* [date_range[0], date_range[1]]; a missing date compares False.  A shorter *)
(* date_range leaves the rows as they are                                    *)
DateFilter(rows, col, dr) ==
    IF Len(dr) = 2
    THEN SelectSeq(rows, LAMBDA r :
            /\ NotNull(r[col])
            /\ DateOf(Val(r[col])) >= dr[1]
            /\ DateOf(Val(r[col])) <= dr[2])
    ELSE rows

(* bucket[col].min().date() handed to st.date_input: with no date in the     *)
(* bucket the widget is given NaT and the run ends in an exception           *)
NoDates(rows, col) == \A i \in 1..Len(rows) : IsNull(rows[i][col])

(* Mutant: the keywords matched with their case *)
BucketCaseSensitive(rows, rules) ==
    SelectSeq(rows, LAMBDA r : \E rule \in rules :
        NotNull(r[rule[1]]) /\ ContainsAny(Val(r[rule[1]]), rule[2]))

(* The rows in which one of the (column, keywords) rules matches *)
Bucket(rows, rules) ==
    SelectSeq(rows, LAMBDA r : \E rule \in rules : ContainsNoCase(r[rule[1]], rule[2]))

-----------------------------------------------------------------------------
(* Cashbook *)

CashbookLateCols(cols) ==
    {"account_head", "particulars"}
        \cup (IF "category" \in cols THEN {"sub_category", "amount"} ELSE {})
        \cup (IF "party_name" \in cols THEN {"party_type", "amount"} ELSE {})

(* days_diff = (date_range[1] - date_range[0]).days *)
days_diff(dr) == dr[2] - dr[1]

(* Mutant: the previous period begins days_diff days before the range *)
prev_start_short(dr) == dr[1] - days_diff(dr)

(* prev_start = date_range[0] - timedelta(days=days_diff+1) *)
prev_start(dr) == dr[1] - (days_diff(dr) + 1)

(* prev_end = date_range[0] - timedelta(days=1) *)
prev_end(dr) == dr[1] - 1

(* prev_period_df: the rows of df, the whole ledger, paid in the previous    *)
(* period; a missing payment_date compares False                            *)
prev_period_df(all, dr) ==
    SelectSeq(all, LAMBDA r :
        /\ NotNull(r.payment_date)
        /\ DateOf(Val(r.payment_date)) >= prev_start(dr)
        /\ DateOf(Val(r.payment_date)) <= prev_end(dr))

(* ((total - prev)/prev*100) if prev > 0 else 0 *)
PctChange(total, prev) ==
    IF prev > 0 THEN Div((total - prev) * 100, prev) ELSE Div(0, 1)

(* The metrics of the Cashbook: the totals of the filtered cash rows and,   *)
(* when date_range holds two dates, the comparison with the previous period *)
CashbookView(all, rows, dr) ==
    LET total_debit == SumCol(rows, "debit")
        total_credit == SumCol(rows, "credit")
        compared == Len(dr) = 2
        prev == IF compared THEN prev_period_df(all, dr) ELSE <<>>
    IN  [filtered |-> rows,
         total_debit |-> total_debit,
         total_credit |-> total_credit,
         net_flow |-> total_debit - total_credit,
         compared |-> compared,
         prev_start |-> IF compared THEN Some(prev_start(dr)) ELSE Null,
         prev_end |-> IF compared THEN Some(prev_end(dr)) ELSE Null,
         prev_debit |-> SumCol(prev, "debit"),
         prev_credit |-> SumCol(prev, "credit"),
         debit_change |-> IF compared THEN PctChange(total_debit, SumCol(prev, "debit"))
                          ELSE Div(0, 1),
         credit_change |-> IF compared THEN PctChange(total_credit, SumCol(prev, "credit"))
                           ELSE Div(0, 1)]

CashbookPage(frame, w) ==
    IF "payment_date" \notin frame.cols THEN Raised("Cashbook", "KeyError", {})
    ELSE
    LET hasMethod == "payment_method" \in frame.cols
        msgs == IF hasMethod THEN {}
                ELSE {Msg("warning", "No payment_method column found - showing all transactions")}
        cash_df == IF hasMethod
                   THEN SelectSeq(frame.rows, LAMBDA r :
                            /\ NotNull(r.payment_method)
                            /\ ContainsAny(Lower(Val(r.payment_method)), {"cash", "ca"}))
                   ELSE frame.rows
        rows == DateFilter(cash_df, "payment_date", w.date_range)
    IN  IF Len(cash_df) = 0
        THEN Told("Cashbook", msgs \cup
                {Msg("warning", "No cash transactions found in the selected date range!")})
        ELSE IF NoDates(cash_df, "payment_date") THEN Raised("Cashbook", "ValueError", msgs)
        ELSE IF ~({"debit", "credit", "voucher_no"} \subseteq frame.cols)
        THEN Raised("Cashbook", "KeyError", msgs)
        ELSE IF ~(CashbookLateCols(frame.cols) \subseteq frame.cols)
        THEN RaisedAfter("Cashbook", "KeyError", msgs, CashbookView(frame.rows, rows, w.date_range))
        ELSE IF Len(w.date_range) # 2
        THEN RaisedAfter("Cashbook", "IndexError", msgs, CashbookView(frame.rows, rows, w.date_range))
        ELSE Shown("Cashbook", msgs, CashbookView(frame.rows, rows, w.date_range))

-----------------------------------------------------------------------------
(* Bankbook *)

BankbookRequired ==
    {"bank_deposit", "bank_withdrawal", "account_head", "payment_date", "payment_method"}

BankbookLateCols(cols) ==
    {"voucher_no", "amount", "particulars"}
        \cup (IF "sub_category" \in cols THEN {"category"} ELSE {})
        \cup (IF "party_name" \in cols THEN {"party_type"} ELSE {})

(* Mutant: the totals taken after the date filter *)
BankbookViewFiltered(bank_df, rows) ==
    [filtered |-> rows,
     total_deposit |-> SumCol(rows, "bank_deposit"),
     total_withdrawal |-> SumCol(rows, "bank_withdrawal"),
     net_flow |-> SumCol(rows, "bank_deposit") - SumCol(rows, "bank_withdrawal")]

BankbookView(bank_df, rows) ==
    [filtered |-> rows,
     total_deposit |-> SumCol(bank_df, "bank_deposit"),
     total_withdrawal |-> SumCol(bank_df, "bank_withdrawal"),
     net_flow |-> SumCol(bank_df, "bank_deposit") - SumCol(bank_df, "bank_withdrawal")]

BankbookPage(frame, w) ==
    IF ~(BankbookRequired \subseteq frame.cols)
    THEN Told("Bankbook",
            {MsgCols("error",
                "Required columns missing: bank_deposit, bank_withdrawal, payment_date, payment_method",
                {"bank_deposit", "bank_withdrawal", "payment_date", "payment_method"})})
    ELSE
    LET bank_df == SelectSeq(frame.rows, LAMBDA r :
                       NotNull(r.payment_method) /\ Contains(Lower(Val(r.payment_method)), "bank"))
        rows == DateFilter(bank_df, "payment_date", w.date_range)
        view == BankbookView(bank_df, rows)
    IN  IF Len(bank_df) = 0
        THEN Told("Bankbook", {Msg("warning", "No bank transactions found!")})
        ELSE IF NoDates(bank_df, "payment_date") THEN Raised("Bankbook", "ValueError", {})
        ELSE IF ~(BankbookLateCols(frame.cols) \subseteq frame.cols)
        THEN RaisedAfter("Bankbook", "KeyError", {}, view)
        ELSE IF "party_name" \in frame.cols
                /\ "payable" \notin frame.cols /\ "receivedable" \notin frame.cols
        THEN RaisedAfter("Bankbook", "KeyError", {}, view)
        ELSE Shown("Bankbook", {}, view)

-----------------------------------------------------------------------------
(* Liability *)

LiabilityRequired ==
    {"amount", "due_date", "status", "party_name", "account_head", "sub_category", "party_type"}

LiabilityRules ==
    {<<"account_head", {"Liability", "Loan"}>>,
     <<"sub_category", {"Loan", "Liability"}>>,
     <<"party_type", {"Managing Director"}>>}

liability_df(rows) == Bucket(rows, LiabilityRules)

(* liability_df['status'].str.lower() != 'paid': a missing status differs *)
NotPaid(r) == IsNull(r.status) \/ Lower(Val(r.status)) # "paid"

LiabilityView(rows) ==
    [filtered |-> rows,
     total_liabilities |-> SumCol(rows, "amount"),
     overdue_liabilities |-> SumCol(SelectSeq(rows, NotPaid), "amount")]

LiabilityPage(frame, w) ==
    IF ~(LiabilityRequired \subseteq frame.cols) THEN Told("Liability", {})
    ELSE
    LET bucket == liability_df(frame.rows)
        rows == DateFilter(bucket, "due_date", w.date_range)
    IN  IF Len(bucket) = 0 THEN Told("Liability", {})
        ELSE IF NoDates(bucket, "due_date") THEN Raised("Liability", "ValueError", {})
        ELSE IF "voucher_no" \notin frame.cols
        THEN RaisedAfter("Liability", "KeyError", {}, LiabilityView(rows))
        ELSE Shown("Liability", {}, LiabilityView(rows))

-----------------------------------------------------------------------------
(* Income *)

IncomeRequired ==
    {"amount", "payment_date", "account_head", "category", "sub_category",
     "party_name", "payment_method", "account_name"}

IncomeRules ==
    {<<"account_head", {"Income", "Revenue", "Sales"}>>,
     <<"category", {"Income", "Revenue"}>>,
     <<"sub_category", {"Income", "Sales"}>>}

income_df(rows) == Bucket(rows, IncomeRules)

(* st.multiselect("Filter by Party", options, default=options) followed by  *)
(* bucket[bucket['party_name'].isin(party_filter)]: the rows whose party is  *)
(* among the selected ones; pf = Null is the default left as it is, every   *)
(* option selected                                                          *)
PartyFilter(rows, options, pf) ==
    SelectSeq(rows, LAMBDA r : r.party_name \in (IF IsNull(pf) THEN options ELSE Val(pf)))

(* income_df['party_name'].unique(): every value of the column, NaN too *)
IncomeParties(rows) == {rows[i].party_name : i \in 1..Len(rows)}

IncomeView(rows, pf) ==
    [filtered |-> rows, total_income |-> SumCol(rows, "amount"),
     detail |-> PartyFilter(rows, IncomeParties(rows), pf)]

(* groupby('party_name')['amount'].sum().idxmax(): the groups are the        *)
(* non-missing party names; with no group idxmax raises ValueError           *)
IncomePage(frame, w) ==
    IF ~(IncomeRequired \subseteq frame.cols) THEN Told("Income", {})
    ELSE
    LET bucket == income_df(frame.rows)
        rows == DateFilter(bucket, "payment_date", w.date_range)
    IN  IF Len(bucket) = 0 THEN Told("Income", {})
        ELSE IF NoDates(bucket, "payment_date") THEN Raised("Income", "ValueError", {})
        ELSE IF \A i \in 1..Len(rows) : IsNull(rows[i].party_name)
        THEN Raised("Income", "ValueError", {})
        ELSE IF ~({"voucher_no", "particulars"} \subseteq frame.cols)
        THEN RaisedAfter("Income", "KeyError", {}, IncomeView(rows, w.party_filter))
        ELSE Shown("Income", {}, IncomeView(rows, w.party_filter))

-----------------------------------------------------------------------------
(* Expense *)

ExpenseRequired ==
    {"credit", "payment_date", "account_head", "category", "sub_category", "party_name"}

ExpenseRules ==
    {<<"account_head", {"Expense", "Purchase", "Cost"}>>,
     <<"category", {"Expense", "Purchase"}>>,
     <<"sub_category", {"Expense", "Purchase"}>>}

expense_df(rows) == Bucket(rows, ExpenseRules)

(* sorted(expense_df['party_name'].dropna().unique()) *)
ExpenseParties(rows) == IncomeParties(rows) \ {Null}

ExpenseView(rows, pf) ==
    [filtered |-> rows, total_amount |-> SumCol(rows, "credit"),
     detail |-> PartyFilter(rows, ExpenseParties(rows), pf)]

ExpensePage(frame, w) ==
    IF ~(ExpenseRequired \subseteq frame.cols)
    THEN Told("Expense",
            {MsgCols("error", "Missing required columns: {...}",
                     ExpenseRequired \ frame.cols)})
    ELSE
    LET bucket == expense_df(frame.rows)
        rows == DateFilter(bucket, "payment_date", w.date_range)
    IN  IF Len(bucket) = 0
        THEN Told("Expense",
                {Msg("warning", "No expense records found for the given criteria.")})
        ELSE IF NoDates(bucket, "payment_date") THEN Raised("Expense", "ValueError", {})
        ELSE IF "voucher_no" \notin frame.cols THEN Raised("Expense", "KeyError", {})
        ELSE IF "particulars" \notin frame.cols
        THEN RaisedAfter("Expense", "KeyError", {}, ExpenseView(rows, w.party_filter))
        ELSE Shown("Expense", {}, ExpenseView(rows, w.party_filter))

-----------------------------------------------------------------------------
(* Payables *)

(* The mask of payable_df on one row: str.lower() == "vendor" is False and  *)
(* str.lower() != "paid" is True on a missing cell                          *)
IsPayable(r) ==
    /\ NotNull(r.party_type) /\ Lower(Val(r.party_type)) = "vendor"
    /\ (IsNull(r.status) \/ Lower(Val(r.status)) # "paid")

PayablesView(rows) ==
    [payable_df |-> rows, total_payable |-> SumCol(rows, "amount")]

PayablesPage(frame) ==
    IF ~({"party_type", "status"} \subseteq frame.cols)
    THEN Raised("Payables", "KeyError", {})
    ELSE
    LET rows == SelectSeq(frame.rows, IsPayable)
    IN  IF Len(rows) = 0
        THEN Told("Payables",
                {Msg("info", "No outstanding payables. All vendor bills are paid.")})
        ELSE IF ~({"amount", "party_name", "voucher_no"} \subseteq frame.cols)
        THEN Raised("Payables", "KeyError", {})
        ELSE IF HasText(rows, "amount")
        THEN Raised("Payables", SumError(rows, "amount"), {})
        ELSE IF "due_date" \notin frame.cols
        THEN RaisedAfter("Payables", "KeyError", {}, PayablesView(rows))
        ELSE Shown("Payables", {}, PayablesView(rows))

-----------------------------------------------------------------------------
(* Home *)

(* df['date'].dt.to_period('M') on one row: the month, or NaT *)
MonthCell(r) == IF NotNull(r.date) THEN Some(MonthOf(Val(r.date))) ELSE Null

(* groupby(key).agg(a=('debit', 'sum'), b=('credit', 'sum')) over the groups *)
(* of `keys': the sums of debit and of credit of each group                  *)
DebitCreditBy(rows, key(_), keys) ==
    [k \in keys |->
        LET grp == SelectSeq(rows, LAMBDA r : key(r) = k)
        IN  [debit |-> SumCol(grp, "debit"), credit |-> SumCol(grp, "credit")]]

(* Home's monthly_summary (total_income is the debit sum, total_expense the  *)
(* credit sum): month is .astype(str), so NaT is the text 'NaT', a key like  *)
(* any other, and the rows without a date form a group of their own          *)
HomeMonthly(rows) ==
    DebitCreditBy(rows, MonthCell, {MonthCell(rows[i]) : i \in 1..Len(rows)})

HomeView(rows, dated) ==
    LET total_cash == SumCol(rows, "debit") - SumCol(rows, "credit")
        total_bank == SumCol(rows, "bank_deposit") - SumCol(rows, "bank_withdrawal")
    IN  [total_cash |-> total_cash, total_bank |-> total_bank,
         total_balance |-> total_cash + total_bank,
         hasMonthly |-> dated,
         monthly_summary |-> IF dated THEN HomeMonthly(rows) ELSE <<>>]

(* df['debit'] and the three columns after it are read whatever df holds *)
HomePage(frame) ==
    IF ~({"debit", "credit", "bank_deposit", "bank_withdrawal"} \subseteq frame.cols)
    THEN Raised("Home", "KeyError", {})
    ELSE Shown("Home", {}, HomeView(frame.rows, "date" \in frame.cols))

(* The df Home leaves: the four columns coerced in place, then month added *)
HomeDf(frame) ==
    LET a == Coerced(frame, {"debit", "credit", "bank_deposit", "bank_withdrawal"})
    IN  IF {"debit", "credit", "bank_deposit", "bank_withdrawal"} \subseteq frame.cols
           /\ "date" \in frame.cols
        THEN WithColumn(a, "month", MonthCell)
        ELSE a

-----------------------------------------------------------------------------
(* Dashboard *)

(* Dashboard's monthly_summary (total_expense is the debit sum, total_income *)
(* the credit sum): month is a period, and groupby drops the NaT key         *)
DashboardMonthly(rows) ==
    DebitCreditBy(rows, MonthCell, {MonthCell(rows[i]) : i \in 1..Len(rows)} \ {Null})

(* groupby('category', dropna=False): the missing category is a group too *)
DashboardCategories(rows) ==
    DebitCreditBy(rows, LAMBDA r : r.category, {rows[i].category : i \in 1..Len(rows)})

DashboardView(frame) ==
    LET total_income == SumCol(frame.rows, "credit")
        total_expense == SumCol(frame.rows, "debit")
    IN  [total_income |-> total_income, total_expense |-> total_expense,
         balance |-> total_income - total_expense,
         category_summary |-> IF "category" \in frame.cols
                              THEN DashboardCategories(frame.rows) ELSE <<>>,
         hasMonthly |-> "date" \in frame.cols,
         monthly_summary |-> IF "date" \in frame.cols
                             THEN DashboardMonthly(frame.rows) ELSE <<>>]

DashboardPage(frame) ==
    IF ~({"debit", "credit"} \subseteq frame.cols)
    THEN Raised("Dashboard", "KeyError", {})
    ELSE Shown("Dashboard",
            IF "date" \in frame.cols THEN {}
            ELSE {Msg("warning", "Date column not found in data. Monthly trend chart cannot be displayed.")},
            DashboardView(frame))

(* The df Dashboard leaves: debit and credit coerced in place, month added *)
DashboardDf(frame) ==
    LET a == Coerced(frame, {"debit", "credit"})
    IN  IF {"debit", "credit"} \subseteq frame.cols /\ "date" \in frame.cols
        THEN WithColumn(a, "month", MonthCell)
        ELSE a

-----------------------------------------------------------------------------
(* Forecast *)

(* What the Prophet calls of a run do: succeed, or fail at the import, in   *)
(* fit, in predict or in one of the plots                                   *)
ProphetOutcomes == {"ok", "ModuleNotFoundError", "fit", "predict", "plot"}

(* daily_data: groupby('date') on the timestamps, the NaT key dropped, with *)
(* net_cashflow = total_credit - total_debit                                *)
daily_data(rows) ==
    LET stamps == {rows[i].date : i \in 1..Len(rows)} \ {Null}
        sums == DebitCreditBy(rows, LAMBDA r : r.date, stamps)
    IN  [t \in stamps |->
            [total_debit |-> sums[t].debit, total_credit |-> sums[t].credit,
             net_cashflow |-> sums[t].credit - sums[t].debit]]

(* Prophet.fit refuses a history of less than two rows *)
ProphetDoes(daily, asked) ==
    IF asked = "ok" /\ Cardinality(DOMAIN daily) < 2 THEN "fit" ELSE asked

(* Mutant: the Prophet calls outside any try block *)
ForecastUnguarded(frame, w) ==
    IF "date" \notin frame.cols
    THEN Told("Forecast", {Msg("warning", "'date' column not found in dataset.")})
    ELSE IF ~({"debit", "credit"} \subseteq frame.cols)
    THEN Raised("Forecast", "KeyError", {})
    ELSE LET daily == daily_data(frame.rows)
             does == ProphetDoes(daily, w.prophet)
         IN  IF does = "ok"
             THEN Shown("Forecast", {Msg("success", "Forecasting completed successfully!")},
                        [daily_data |-> daily, plots |-> 2, table |-> TRUE])
             ELSE Raised("Forecast", does, {})

(* try: import, fit, predict, the two plots, the table; except               *)
(* ModuleNotFoundError and except Exception show an error; else: success     *)
ForecastPage(frame, w) ==
    IF "date" \notin frame.cols
    THEN Told("Forecast", {Msg("warning", "'date' column not found in dataset.")})
    ELSE IF ~({"debit", "credit"} \subseteq frame.cols)
    THEN Raised("Forecast", "KeyError", {})
    ELSE LET daily == daily_data(frame.rows)
             does == ProphetDoes(daily, w.prophet)
         IN  CASE does = "ok" ->
                    Shown("Forecast", {Msg("success", "Forecasting completed successfully!")},
                          [daily_data |-> daily, plots |-> 2, table |-> TRUE])
               [] does = "ModuleNotFoundError" ->
                    Told("Forecast",
                         {Msg("error", "Prophet library not installed. Run: pip install prophet")})
               [] does = "plot" ->
                    Shown("Forecast", {Msg("error", "An error occurred while forecasting")},
                          [daily_data |-> daily, plots |-> 1, table |-> FALSE])
               [] OTHER ->
                    Told("Forecast", {Msg("error", "An error occurred while forecasting")})

(* The df Forecast leaves: debit and credit coerced in place *)
ForecastDf(frame) ==
    IF "date" \in frame.cols /\ {"debit", "credit"} \subseteq frame.cols
    THEN Coerced(frame, {"debit", "credit"})
    ELSE frame

-----------------------------------------------------------------------------
(* MD Report *)

MDReportCols ==
    {"date", "category", "debit", "credit", "party_type", "amount",
     "bank_deposit", "bank_withdrawal"}

(* mask: df['date'] between the midnights of start_date and end_date *)
MDMask(rows, s, e) ==
    SelectSeq(rows, LAMBDA r :
        /\ NotNull(r.date)
        /\ Val(r.date) >= Midnight(s)
        /\ Val(r.date) <= Midnight(e))

CategoryIs(rows, c) == SelectSeq(rows, LAMBDA r : r.category = Some(c))

(* party_type == p and, with a status column, status not containing `done' *)
Outstanding(rows, hasStatus, p, done) ==
    SelectSeq(rows, LAMBDA r :
        /\ r.party_type = Some(p)
        /\ (hasStatus => ~(NotNull(r.status) /\ Contains(Val(r.status), done))))

(* x / y if y != 0 else float('inf') *)
RatioOrInf(x, y) == IF y # 0 THEN Div(x, y) ELSE FloatInf

MDReportView(rows, hasStatus) ==
    LET total_sales == SumCol(CategoryIs(rows, "Income"), "debit")
        total_expenses == SumCol(CategoryIs(rows, "Expense"), "credit")
        total_loans == SumCol(CategoryIs(rows, "Loan"), "debit")
        total_payables == SumCol(Outstanding(rows, hasStatus, "Vendor", "Paid"), "amount")
        total_receivables ==
            SumCol(Outstanding(rows, hasStatus, "Customer", "Received"), "amount")
        total_balance == (SumCol(rows, "debit") - SumCol(rows, "credit"))
                         + (SumCol(rows, "bank_deposit") - SumCol(rows, "bank_withdrawal"))
        assets == total_balance + total_receivables
        liabilities == total_payables + total_loans
        equity == assets - liabilities
    IN  [filtered |-> rows,
         total_sales |-> total_sales, total_expenses |-> total_expenses,
         total_loans |-> total_loans, total_payables |-> total_payables,
         total_receivables |-> total_receivables, total_balance |-> total_balance,
         assets |-> assets, liabilities |-> liabilities, equity |-> equity,
         current_ratio |-> RatioOrInf(total_balance + total_receivables,
                                      total_payables + total_loans),
         debt_to_equity |-> RatioOrInf(total_payables + total_loans, equity)]

MDReportErrors ==
    {Msg("error", "An error occurred while generating the report"),
     Msg("error", "Please check your data format and try again")}

MDReportPage(frame, w) ==
    IF "date" \in frame.cols /\ NoDates(frame.rows, "date")
    THEN Raised("MD Report", "ValueError", {})
    ELSE IF IsNull(w.start_date) \/ IsNull(w.end_date)
    THEN Raised("MD Report", "TypeError", {})
    ELSE IF Val(w.start_date) > Val(w.end_date)
    THEN Stopped("MD Report", {Msg("error", "End date must be after start date")})
    ELSE IF ~(MDReportCols \subseteq frame.cols)
    THEN Told("MD Report", MDReportErrors)
    ELSE Shown("MD Report", {},
            MDReportView(MDMask(frame.rows, Val(w.start_date), Val(w.end_date)),
                         "status" \in frame.cols))

-----------------------------------------------------------------------------
(* Balance Sheet *)

BalanceRequired == {"account_name", "account_type", "amount"}

RECURSIVE Strip(_)
(* str.strip(): spaces removed at both ends *)
Strip(s) ==
    IF Len(s) = 0 THEN s
    ELSE IF SubSeq(s, 1, 1) = " " THEN Strip(SubSeq(s, 2, Len(s)))
    ELSE IF SubSeq(s, Len(s), Len(s)) = " " THEN Strip(SubSeq(s, 1, Len(s) - 1))
    ELSE s

(* astype(str).str.strip().str.lower(), then capital and retained earnings  *)
(* renamed to equity; a missing cell reads "nan"                            *)
AccountClass(r) ==
    LET t == IF IsNull(r.account_type) THEN "nan" ELSE Lower(Strip(Val(r.account_type)))
    IN  IF t \in {"capital", "retained earnings"} THEN "equity" ELSE t

OfClass(rows, c) == SelectSeq(rows, LAMBDA r : AccountClass(r) = c)

(* groupby('account_name').agg(total_amount, percentage): one group for     *)
(* each account_name that is not missing, with its share of the class       *)
(* total, x.sum() / total * 100 if total != 0 else 0                        *)
Breakdown(rows, total) ==
    LET names == {rows[i].account_name : i \in 1..Len(rows)} \ {Null}
    IN  [n \in names |->
            LET grp == SelectSeq(rows, LAMBDA r : r.account_name = n)
            IN  [total_amount |-> SumCol(grp, "amount"),
                 percentage |-> IF total # 0 THEN Div(SumCol(grp, "amount") * 100, total)
                                ELSE Div(0, 1)]]

BalanceSheetView(rows) ==
    LET total_assets == SumCol(OfClass(rows, "asset"), "amount")
        total_liabilities == SumCol(OfClass(rows, "liability"), "amount")
        total_equity == IF Len(OfClass(rows, "equity")) # 0
                        THEN SumCol(OfClass(rows, "equity"), "amount")
                        ELSE total_assets - total_liabilities
    IN  [total_assets |-> total_assets,
         total_liabilities |-> total_liabilities,
         total_equity |-> total_equity,
         asset_summary |-> Breakdown(OfClass(rows, "asset"), total_assets),
         liability_summary |-> Breakdown(OfClass(rows, "liability"), total_liabilities),
         equity_summary |-> Breakdown(OfClass(rows, "equity"), total_equity),
         current_ratio |-> RatioOrInf(total_assets, total_liabilities),
         debt_to_equity |-> RatioOrInf(total_liabilities, total_equity)]

(* required_cols, in the order the page lists them *)
BalanceRequiredList == <<"account_name", "account_type", "amount">>

(* col_mapping = {col: required_cols[i] for i, col in enumerate(df.columns)  *)
(* if col is a required column}: i is the position of the column in the     *)
(* ledger, so a required column after the third position is an IndexError   *)
MappingFails(frame) ==
    \E i \in 1..Len(frame.order) :
        frame.order[i] \in BalanceRequired /\ i > Len(BalanceRequiredList)

(* A cell of another column read as an amount: text is no number *)
AsAmount(c, from) ==
    IF from = "amount" \/ IsNull(c) THEN c ELSE Unparseable

(* A cell of another column read as text: astype(str) of a number *)
AsText(c, from) ==
    IF from # "amount" THEN c
    ELSE IF IsNull(c) THEN Null
    ELSE Some("number")

(* df.rename(columns=col_mapping) where the mapping succeeds: the required  *)
(* columns are the first three, and the column at position i is given the   *)
(* i-th required name                                                       *)
Renamed(rows, order) ==
    [i \in 1..Len(rows) |->
        [rows[i] EXCEPT !.account_name = AsText(rows[i][order[1]], order[1]),
                        !.account_type = AsText(rows[i][order[2]], order[2]),
                        !.amount = AsAmount(rows[i][order[3]], order[3])]]

(* The rows the snapshot filter keeps: those dated up to the midnight of    *)
(* the chosen day; when the filter raises, df stays as it was               *)
SnapshotFails(frame, w) ==
    "date" \in frame.cols /\ (NoDates(frame.rows, "date") \/ IsNull(w.end_date))

SnapshotRows(frame, w) ==
    IF "date" \in frame.cols /\ ~SnapshotFails(frame, w)
    THEN SelectSeq(frame.rows, LAMBDA r :
            NotNull(r.date) /\ Val(r.date) <= Midnight(Val(w.end_date)))
    ELSE frame.rows

BalanceErrors ==
    {Msg("error", "An error occurred"), Msg("error", "Please check your data and try again")}

BalanceSheetPage(frame, w) ==
    LET warn == IF SnapshotFails(frame, w)
                THEN {Msg("warning", "Could not filter by date")} ELSE {}
        rows == Renamed(SnapshotRows(frame, w), frame.order)
        kept == SelectSeq(rows, LAMBDA r : AccountClass(r) \in {"asset", "liability", "equity"})
    IN  IF ~(BalanceRequired \subseteq frame.cols)
        THEN Stopped("Balance Sheet", warn \cup
                {MsgCols("warning", "Required columns not found", BalanceRequired \ frame.cols),
                 Msg("info", "Please ensure your dataset contains: account_name, account_type, and amount columns")})
        ELSE IF MappingFails(frame)
        THEN Told("Balance Sheet", warn \cup BalanceErrors)
        ELSE IF Len(kept) = 0
        THEN Stopped("Balance Sheet", warn \cup
                {Msg("warning", "No valid balance sheet accounts found (looking for types: asset, liability, equity)")})
        ELSE Shown("Balance Sheet", warn, BalanceSheetView(kept))

(* The df the Balance Sheet branch leaves: rebound to the snapshot rows,    *)
(* then renamed, amount coerced and account_type rewritten in lower case    *)
BalanceSheetDf(frame, w) ==
    LET snap == [frame EXCEPT !.rows = SnapshotRows(frame, w)]
    IN  IF ~(BalanceRequired \subseteq frame.cols) \/ MappingFails(frame)
        THEN snap
        ELSE WithColumn(
                Coerced([snap EXCEPT !.rows = Renamed(snap.rows, frame.order)], {"amount"}),
                "account_type",
                LAMBDA r : Some(IF IsNull(r.account_type) THEN "nan"
                                ELSE Lower(Strip(Val(r.account_type)))))

-----------------------------------------------------------------------------
(* What the branches write into the module's df *)

(* Cashbook: five columns coerced, then four columns derived from           *)
(* payment_date; without payment_date the run ends after the coercions      *)
CashbookDf(frame) ==
    LET a == Coerced(frame, {"debit", "credit", "amount", "bank_deposit", "bank_withdrawal"})
        paid(r) == r.payment_date
        b == WithColumn(a, "month_year",
                LAMBDA r : IF NotNull(paid(r)) THEN Some(MonthOf(Val(paid(r)))) ELSE Null)
        c == WithColumn(b, "day_of_week",
                LAMBDA r : IF NotNull(paid(r)) THEN Some(DayOfWeek(Val(paid(r)))) ELSE Null)
        d == WithColumn(c, "is_weekend",
                LAMBDA r : NotNull(paid(r)) /\ DayOfWeek(Val(paid(r))) >= 5)
    IN  IF "payment_date" \notin frame.cols THEN a
        ELSE WithColumn(d, "year",
                LAMBDA r : IF NotNull(paid(r)) THEN Some(YearOf(Val(paid(r)))) ELSE Null)

(* Bankbook: seven columns coerced, and due_date = None where it is absent *)
BankbookDf(frame) ==
    LET a == Coerced(frame, {"bank_deposit", "bank_withdrawal", "amount", "debit", "credit",
                             "payable", "receivedable"})
    IN  IF ~(BankbookRequired \subseteq frame.cols) THEN frame
        ELSE IF "due_date" \in frame.cols THEN a
        ELSE WithColumn(a, "due_date", LAMBDA r : Null)

(* Bank Txns: required_cols, then the two bank columns coerced *)
BankTxnsRequired ==
    {"bank_deposit", "bank_withdrawal", "payment_date", "payment_method", "account_head"}

BankTxnsRules ==
    {<<"account_head", {"Bank", "Cash"}>>,
     <<"category", {"Bank", "Cash"}>>,
     <<"sub_category", {"Bank", "Cash"}>>}

BankTxnsLateCols ==
    {"voucher_no", "status", "party_name", "amount"}

(* The payment-method multiselect left at its default, every method of the  *)
(* rows selected: isin drops the rows without a method, unless no row has   *)
(* one, when the selection is empty and the filter is skipped               *)
DefaultMethods(rows) ==
    IF \A i \in 1..Len(rows) : IsNull(rows[i].payment_method) THEN rows
    ELSE SelectSeq(rows, LAMBDA r : NotNull(r.payment_method))

(* Bank Txns: the totals of the bucket, taken before the filters, and the   *)
(* rows the filters leave                                                   *)
BankTxnsView(bank_df, rows) ==
    [filtered |-> rows,
     total_deposit |-> SumCol(bank_df, "bank_deposit"),
     total_withdrawal |-> SumCol(bank_df, "bank_withdrawal"),
     net_flow |-> SumCol(bank_df, "bank_deposit") - SumCol(bank_df, "bank_withdrawal")]

(* The Bank Txns branch: no message when columns are missing or the bucket  *)
(* is empty; the date filter is guarded by len(date_range) == 2 and then    *)
(* applied again unguarded, before the metrics are displayed                *)
BankTxnsPage(frame, w) ==
    IF ~(BankTxnsRequired \subseteq frame.cols) THEN Told("Bank Txns", {})
    ELSE IF ~({"category", "sub_category"} \subseteq frame.cols)
    THEN Raised("Bank Txns", "KeyError", {})
    ELSE
    LET bank_df == Bucket(frame.rows, BankTxnsRules)
        rows == DefaultMethods(DateFilter(bank_df, "payment_date", w.date_range))
        view == BankTxnsView(bank_df, rows)
    IN  IF Len(bank_df) = 0 THEN Told("Bank Txns", {})
        ELSE IF NoDates(bank_df, "payment_date") THEN Raised("Bank Txns", "ValueError", {})
        ELSE IF Len(w.date_range) # 2 THEN Raised("Bank Txns", "IndexError", {})
        ELSE IF ~(BankTxnsLateCols \subseteq frame.cols)
        THEN RaisedAfter("Bank Txns", "KeyError", {}, view)
        ELSE Shown("Bank Txns", {}, view)

(* The df a run of branch `c' leaves, from the table load_data returned.    *)
(* to_datetime on a column load_data has parsed already changes nothing     *)
Writes(c, frame, w) ==
    IF c = "Home" THEN HomeDf(frame)
    ELSE IF c = "Dashboard" /\ ~IsEmpty(frame) THEN DashboardDf(frame)
    ELSE IF c = "Cashbook" /\ ~IsEmpty(frame) THEN CashbookDf(frame)
    ELSE IF c = "Bankbook" /\ ~IsEmpty(frame) THEN BankbookDf(frame)
    ELSE IF c = "Liability" /\ ~IsEmpty(frame)
    THEN (IF LiabilityRequired \subseteq frame.cols THEN Coerced(frame, {"amount"}) ELSE frame)
    ELSE IF c = "Income" /\ ~IsEmpty(frame)
    THEN (IF IncomeRequired \subseteq frame.cols THEN Coerced(frame, {"amount"}) ELSE frame)
    ELSE IF c = "Expense" /\ ~IsEmpty(frame)
    THEN (IF ExpenseRequired \subseteq frame.cols THEN Coerced(frame, {"credit"}) ELSE frame)
    ELSE IF c = "Bank Txns" /\ ~IsEmpty(frame)
    THEN (IF BankTxnsRequired \subseteq frame.cols
          THEN Coerced(frame, {"bank_deposit", "bank_withdrawal"}) ELSE frame)
    ELSE IF c = "Forecast" THEN ForecastDf(frame)
    ELSE IF c = "(scales) Balance Sheet" THEN BalanceSheetDf(frame, w)
    ELSE frame

-----------------------------------------------------------------------------
(* The sidebar menu and the script's if/elif chain *)

(* The labels of `menu', in order, with each label's leading emoji left out *)
(* where the branch conditions spell the same label; the settings and the  *)
(* balance sheet labels are kept as the menu spells them                    *)
MenuHome == "Home"
MenuDashboard == "Dashboard"
MenuCashbook == "Cashbook"
MenuBankbook == "Bankbook"
MenuLiability == "Liability"
MenuIncome == "Income"
MenuExpense == "Expense"
MenuPayables == "Payables"
MenuReceivables == "Receivables"
MenuForecast == "Forecast"
MenuMDReport == "MD Report"
MenuBankTxns == "Bank Txns"
MenuSettings == "(gear) Settings"
MenuAbout == "About"
MenuBalance == "(scales) Blance Sheet"

menu ==
    <<MenuHome, MenuDashboard, MenuCashbook, MenuBankbook, MenuLiability,
      MenuIncome, MenuExpense, MenuPayables, MenuReceivables, MenuForecast,
      MenuMDReport, MenuBankTxns, MenuSettings, MenuAbout, MenuBalance>>

FallbackMsg ==
    Msg("warning", "Please upload a valid CSV file to view the financial analysis.")

(* The if/elif chain on choice.  Of the About and Settings branches only    *)
(* the branch taken is recorded                                             *)
Dispatch(c, frame, now, w) ==
    IF c = "Home" THEN HomePage(frame)
    ELSE IF c = "Dashboard" /\ ~IsEmpty(frame) THEN DashboardPage(frame)
    ELSE IF c = "Cashbook" /\ ~IsEmpty(frame) THEN CashbookPage(frame, w)
    ELSE IF c = "Bankbook" /\ ~IsEmpty(frame) THEN BankbookPage(frame, w)
    ELSE IF c = "Liability" /\ ~IsEmpty(frame) THEN LiabilityPage(frame, w)
    ELSE IF c = "Income" /\ ~IsEmpty(frame) THEN IncomePage(frame, w)
    ELSE IF c = "Expense" /\ ~IsEmpty(frame) THEN ExpensePage(frame, w)
    ELSE IF c = "MD Report" THEN MDReportPage(frame, w)
    ELSE IF c = "Payables" THEN PayablesPage(frame)
    ELSE IF c = "Receivables" THEN ReceivablesPage(frame, now)
    ELSE IF c = "Bank Txns" /\ ~IsEmpty(frame) THEN BankTxnsPage(frame, w)
    ELSE IF c = "Forecast" THEN ForecastPage(frame, w)
    ELSE IF c = "(scales) Balance Sheet" THEN BalanceSheetPage(frame, w)
    ELSE IF c = "About" THEN Told("About", {})
    ELSE IF c = "Settings" THEN Told("Settings", {})
    ELSE Told("Fallback", {FallbackMsg})

(* One rerun of the script with the sidebar on `c' and the widgets on `w' *)
Rerun(c, w) ==
    LET call == st_cache_data(cache, fileExists, ledger)
        ld == call.result
        o == Dispatch(c, ld.frame, today, w)
    IN  /\ out' = [o EXCEPT !.choice = c, !.args = w, !.msgs = ld.msgs \cup o.msgs,
                            !.loaded = ld.frame, !.df = Writes(c, ld.frame, w),
                            !.disk = load_data(fileExists, ledger).frame]
        /\ cache' = call.store
        /\ reads' = IF call.ran /\ fileExists THEN reads + 1 ELSE reads
        /\ first' = IF IsNull(first) THEN Some(ld) ELSE first
        /\ UNCHANGED <<fileExists, ledger, today>>

(* The table the next run will get from load_data *)
NextLoad == st_cache_data(cache, fileExists, ledger).result.frame

(* Before the first run of the script *)
ColdStart == cache = Null /\ reads = 0 /\ first = Null /\ out = NoOut

-----------------------------------------------------------------------------
(* What the widgets can return *)

MaxDay == 2
Days == 1..MaxDay

(* st.date_input(label, [min_date, max_date]): no date, one date or two *)
DateRanges == SeqUpTo(Days, 2)

DaysIn(rows, col) ==
    {DateOf(Val(rows[i][col])) : i \in {j \in 1..Len(rows) : NotNull(rows[j][col])}}

(* st.date_input(value, min_value=min_date, max_value=max_date): a day      *)
(* between the two; without a date column value is None, and the widget     *)
(* returns None or today                                                    *)
BoundedDates(frame, now) ==
    IF "date" \in frame.cols /\ ~NoDates(frame.rows, "date")
    THEN LET ds == DaysIn(frame.rows, "date")
         IN  {Some(d) : d \in {x \in Days : \E lo, hi \in ds : lo <= x /\ x <= hi}}
    ELSE {Null, Some(DateOf(now))}

-----------------------------------------------------------------------------
(* The runs: one action for each sidebar choice *)

Home == Rerun(MenuHome, NoArgs)

Cashbook == \E dr \in DateRanges : Rerun(MenuCashbook, [NoArgs EXCEPT !.date_range = dr])

Bankbook == \E dr \in DateRanges : Rerun(MenuBankbook, [NoArgs EXCEPT !.date_range = dr])

Liability == \E dr \in DateRanges : Rerun(MenuLiability, [NoArgs EXCEPT !.date_range = dr])

Income == \E dr \in DateRanges : Rerun(MenuIncome, [NoArgs EXCEPT !.date_range = dr])

Expense == \E dr \in DateRanges : Rerun(MenuExpense, [NoArgs EXCEPT !.date_range = dr])

BankTxns == \E dr \in DateRanges : Rerun(MenuBankTxns, [NoArgs EXCEPT !.date_range = dr])

(* A selection in the "Filter by Party" multiselect of the detail table *)
PartySelections(options) == {Null} \cup {Some(S) : S \in SUBSET options}

IncomeDetail ==
    \E pf \in PartySelections(IncomeParties(income_df(NextLoad.rows))) :
        Rerun(MenuIncome, [NoArgs EXCEPT !.party_filter = pf])

ExpenseDetail ==
    \E pf \in PartySelections(ExpenseParties(expense_df(NextLoad.rows))) :
        Rerun(MenuExpense, [NoArgs EXCEPT !.party_filter = pf])

Payables == Rerun(MenuPayables, NoArgs)

Settings == Rerun(MenuSettings, NoArgs)

About == Rerun(MenuAbout, NoArgs)

Dashboard == Rerun(MenuDashboard, NoArgs)

Forecast == \E p \in ProphetOutcomes : Rerun(MenuForecast, [NoArgs EXCEPT !.prophet = p])

Receivables == Rerun(MenuReceivables, NoArgs)

MDReport ==
    \E s, e \in BoundedDates(NextLoad, today) :
        Rerun(MenuMDReport, [NoArgs EXCEPT !.start_date = s, !.end_date = e])

BalanceSheet ==
    \E e \in BoundedDates(NextLoad, today) :
        Rerun(MenuBalance, [NoArgs EXCEPT !.end_date = e])

-----------------------------------------------------------------------------
(* Ledgers of customer and vendor invoices, due around the aging edges *)

DueOffsets == {-1, 0, 1, 30, 31, 45, 60, 61, 90, 91}

Nows == {Midnight(TodayDay), Midnight(TodayDay) + 1}

(* party_type, status, amount *)
InvoiceKinds ==
    {<<"Customer", "Pending", 1>>, <<"Customer", "Pending", 2>>,
     <<"Customer", "Received", 1>>, <<"Vendor", "Pending", 1>>}

InvoiceRows ==
    {[BlankRow EXCEPT !.voucher_no = Some(1), !.party_name = Some("Acme"),
                      !.party_type = Some(k[1]), !.status = Some(k[2]),
                      !.amount = Some(k[3]), !.due_date = due] :
        k \in InvoiceKinds,
        due \in {Null} \cup {Some(Midnight(TodayDay - o)) : o \in DueOffsets}}

InitRecv ==
    /\ fileExists = TRUE
    /\ ledger \in {Sheet(Columns, rs) : rs \in SeqUpTo(InvoiceRows, MaxRows)}
    /\ today \in Nows
    /\ ColdStart

NextRecv == Receivables

SpecRecv == InitRecv /\ [][NextRecv]_vars

-----------------------------------------------------------------------------
(* Ledgers of dated transactions: a cash sale, a rent paid through the bank *)
(* and a loan from the managing director                                    *)

TxnKinds ==
    {[BlankRow EXCEPT !.voucher_no = Some(1), !.particulars = Some("sale"),
        !.account_head = Some("Sales Income"), !.category = Some("Income"),
        !.sub_category = Some("Sales"), !.account_name = Some("Cash in hand"),
        !.account_type = Some("Asset"), !.payment_method = Some("Cash"),
        !.party_type = Some("Customer"), !.party_name = Some("Acme"),
        !.status = Some("Pending"), !.debit = Some(5), !.credit = Some(0),
        !.amount = Some(5), !.bank_deposit = Some(0), !.bank_withdrawal = Some(0)],
     [BlankRow EXCEPT !.voucher_no = Some(2), !.particulars = Some("rent"),
        !.account_head = Some("Office Expense"), !.category = Some("Expense"),
        !.sub_category = Some("Rent"), !.account_name = Some("Rent payable"),
        !.account_type = Some("Liability"), !.payment_method = Some("Bank Transfer"),
        !.party_type = Some("Vendor"), !.party_name = Some("Landlord"),
        !.status = Some("Pending"), !.debit = Some(0), !.credit = Some(3),
        !.amount = Some(3), !.bank_deposit = Some(0), !.bank_withdrawal = Some(3)],
     [BlankRow EXCEPT !.voucher_no = Some(3), !.particulars = Some("loan"),
        !.account_head = Some("Bank Loan"), !.category = Some("Loan"),
        !.sub_category = Some("Loan"), !.account_name = Some("Director loan"),
        !.account_type = Some("Liability"), !.payment_method = Some("Bank Transfer"),
        !.party_type = Some("Managing Director"), !.party_name = Some("MD"),
        !.status = Some("Paid"), !.debit = Some(7), !.credit = Some(0),
        !.amount = Some(7), !.bank_deposit = Some(7), !.bank_withdrawal = Some(0)]}

(* Midnight and one tick later of each day, and the missing date *)
Stamps == {Null} \cup {Some(Midnight(d) + k) : d \in Days, k \in {0, 1}}

TxnRows ==
    {[k EXCEPT !.date = t, !.payment_date = t, !.due_date = t] :
        k \in TxnKinds, t \in Stamps}

InitBooks ==
    /\ fileExists = TRUE
    /\ ledger \in {Sheet(Columns, rs) : rs \in SeqUpTo(TxnRows, MaxRows)}
    /\ today = Midnight(TodayDay) + 1
    /\ ColdStart

NextBooks ==
    \/ Cashbook
    \/ Bankbook
    \/ Liability
    \/ Income
    \/ Expense
    \/ Payables
    \/ Receivables
    \/ MDReport

SpecBooks == InitBooks /\ [][NextBooks]_vars

-----------------------------------------------------------------------------
(* Ledgers with columns left out of the workbook, and the workbook itself   *)
(* absent                                                                   *)

MaxMissing == 2

ColumnSets == {Columns \ S : S \in {T \in SUBSET Columns : Cardinality(T) <= MaxMissing}}

(* One row of each kind, entered on the first day *)
OneOfEach ==
    [i \in 1..3 |->
        LET k == CHOOSE x \in TxnKinds : x.voucher_no = Some(i)
        IN  [k EXCEPT !.date = Some(Midnight(1)), !.payment_date = Some(Midnight(1)),
                      !.due_date = Some(Midnight(1))]]

InitCols ==
    /\ fileExists \in BOOLEAN
    /\ ledger \in {Sheet(cs, OneOfEach) : cs \in ColumnSets}
    /\ (~fileExists => ledger.cols = Columns)
    /\ today = Midnight(TodayDay) + 1
    /\ ColdStart

NextCols ==
    \/ Home
    \/ Cashbook
    \/ Bankbook
    \/ Liability
    \/ Income
    \/ Expense
    \/ Payables
    \/ Receivables
    \/ MDReport
    \/ BalanceSheet

SpecCols == InitCols /\ [][NextCols]_vars

-----------------------------------------------------------------------------
(* A session during which the workbook on disk is edited, replaced or       *)
(* deleted between the runs                                                 *)

Workbooks == {Sheet(Columns, rs) : rs \in SeqUpTo({OneOfEach[i] : i \in 1..3}, MaxRows)}

(* data/accounts.xlsx is written anew *)
FileReplaced ==
    /\ \E wb \in Workbooks : (wb # ledger \/ ~fileExists) /\ ledger' = wb
    /\ fileExists' = TRUE
    /\ UNCHANGED <<today, out, cache, reads, first>>

(* data/accounts.xlsx is deleted *)
FileRemoved ==
    /\ fileExists
    /\ fileExists' = FALSE
    /\ UNCHANGED <<ledger, today, out, cache, reads, first>>

InitCache ==
    /\ fileExists \in BOOLEAN
    /\ ledger \in Workbooks
    /\ today = Midnight(TodayDay) + 1
    /\ ColdStart

NextCache ==
    \/ Home
    \/ Payables
    \/ Receivables
    \/ FileReplaced
    \/ FileRemoved

SpecCache == InitCache /\ [][NextCache]_vars

-----------------------------------------------------------------------------
(* Ledgers of open bills and invoices whose amount is a number, missing or  *)
(* text                                                                     *)

AmountCells == {Some(3), Null, Unparseable}

BillRows ==
    {[OneOfEach[i] EXCEPT !.amount = a] : i \in 1..2, a \in AmountCells}

InitNums ==
    /\ fileExists = TRUE
    /\ ledger \in {Sheet(Columns, rs) : rs \in SeqUpTo(BillRows, MaxRows)}
    /\ today = Midnight(TodayDay) + 1
    /\ ColdStart

NextNums ==
    \/ Home
    \/ Dashboard
    \/ Payables
    \/ Receivables
    \/ MDReport

SpecNums == InitNums /\ [][NextNums]_vars

-----------------------------------------------------------------------------
(* Ledgers of vendor bills and customer invoices in several states of       *)
(* settlement                                                               *)

Statuses == {"Pending", "Partially Paid", "paid", "Received"}

StatusRows ==
    {[OneOfEach[i] EXCEPT !.status = Some(st)] : i \in 1..2, st \in Statuses}

InitStatus ==
    /\ fileExists = TRUE
    /\ ledger \in {Sheet(Columns, rs) : rs \in SeqUpTo(StatusRows, MaxRows)}
    /\ today = Midnight(TodayDay) + 1
    /\ ColdStart

NextStatus ==
    \/ Payables
    \/ Receivables
    \/ MDReport

SpecStatus == InitStatus /\ [][NextStatus]_vars

-----------------------------------------------------------------------------
(* Charts of accounts: sheets that start with the three columns of the      *)
(* balance sheet, or with the date before them                              *)

AccountTypes ==
    {Some("Asset"), Some(" liability "), Some("Equity"), Some("Capital"),
     Some("Retained Earnings"), Some("Expense"), Null}

AccountRows ==
    {[BlankRow EXCEPT !.account_name = n, !.account_type = t,
                      !.amount = Some(a), !.date = Some(Midnight(1))] :
        n \in {Some("account"), Null}, t \in AccountTypes, a \in 1..2}

SheetOrders ==
    {<<"account_name", "account_type", "amount">>,
     <<"date", "account_name", "account_type", "amount">>}

InitSheet ==
    /\ fileExists = TRUE
    /\ ledger \in {[cols |-> {o[i] : i \in 1..Len(o)}, order |-> o, rows |-> rs] :
                      o \in SheetOrders, rs \in SeqUpTo(AccountRows, MaxRows)}
    /\ today = Midnight(TodayDay) + 1
    /\ ColdStart

NextSheet == BalanceSheet

SpecSheet == InitSheet /\ [][NextSheet]_vars

-----------------------------------------------------------------------------
(* The pages of totals on the ledgers of dated transactions *)

NextTotals ==
    \/ Home
    \/ Dashboard
    \/ Forecast
    \/ Cashbook

SpecTotals == InitBooks /\ [][NextTotals]_vars

-----------------------------------------------------------------------------
(* Ledgers for the liability bucket: heads, sub-categories and parties in   *)
(* several spellings, and missing                                           *)

LiabilityFields ==
    {<<Some("Long Term Liability"), Some("Rent"), Some("Vendor")>>,
     <<Some("Salary"), Some("Wages"), Some("Employee")>>,
     <<Some("bank LOAN"), Null, Null>>,
     <<Some("Salary"), Some("loan repayment"), Some("Vendor")>>,
     <<Null, Some("Other LIABILITY"), Null>>,
     <<Some("Salary"), Null, Some("managing director")>>,
     <<Null, Null, Some("The Managing Director")>>,
     <<Null, Null, Null>>}

LiabilityRows ==
    {[OneOfEach[2] EXCEPT !.account_head = f[1], !.sub_category = f[2], !.party_type = f[3],
                          !.due_date = Some(Midnight(d))] :
        f \in LiabilityFields, d \in Days}

InitLiab ==
    /\ fileExists = TRUE
    /\ ledger \in {Sheet(Columns, rs) : rs \in SeqUpTo(LiabilityRows, MaxRows)}
    /\ today = Midnight(TodayDay) + 1
    /\ ColdStart

NextLiab == Liability

SpecLiab == InitLiab /\ [][NextLiab]_vars

-----------------------------------------------------------------------------
(* The Cashbook on ledgers of cash and bank entries of two consecutive      *)
(* days, among them a reversal entered as a negative debit                  *)

CashFields ==
    {<<Some("Cash"), 5, 0>>, <<Some("Cash"), 0, 3>>, <<Some("Cash"), -5, 0>>,
     <<Some("Bank Transfer"), 5, 0>>, <<Some("Bank Transfer"), 0, 3>>}

CashRows ==
    {[OneOfEach[1] EXCEPT !.payment_method = f[1], !.debit = Some(f[2]), !.credit = Some(f[3]),
                          !.payment_date = Some(Midnight(d))] :
        f \in CashFields, d \in Days}

InitCash ==
    /\ fileExists = TRUE
    /\ ledger \in {Sheet(Columns, rs) : rs \in SeqUpTo(CashRows, MaxRows)}
    /\ today = Midnight(TodayDay) + 1
    /\ ColdStart

NextCash == Cashbook

SpecCash == InitCash /\ [][NextCash]_vars

-----------------------------------------------------------------------------
(* The party filters of Income and Expense on the ledgers of dated          *)
(* transactions                                                             *)

NextParty ==
    \/ IncomeDetail
    \/ ExpenseDetail

SpecParty == InitBooks /\ [][NextParty]_vars

-----------------------------------------------------------------------------
(* Cashbook, Bankbook and Bank Txns with every date selection the widget    *)
(* can return, on the ledgers of dated transactions                         *)

NextBank ==
    \/ Cashbook
    \/ Bankbook
    \/ BankTxns

SpecBank == InitBooks /\ [][NextBank]_vars

-----------------------------------------------------------------------------
(* Every entry of the navigation menu, on workbooks of one or two rows *)

InitMenu ==
    /\ fileExists = TRUE
    /\ ledger \in Workbooks
    /\ today = Midnight(TodayDay) + 1
    /\ ColdStart

NextMenu ==
    \/ Home
    \/ Dashboard
    \/ Cashbook
    \/ Bankbook
    \/ Liability
    \/ Income
    \/ Expense
    \/ Payables
    \/ Receivables
    \/ Forecast
    \/ MDReport
    \/ BankTxns
    \/ Settings
    \/ About
    \/ BalanceSheet

SpecMenu == InitMenu /\ [][NextMenu]_vars

-----------------------------------------------------------------------------
(* Properties of the Receivables aging report *)

LabelSet == {AgingLabels[i] : i \in 1..Len(AgingLabels)}
OverdueLabels == {"0-30 Days", "31-60 Days", "61-90 Days", "90+ Days"}

RecvShown == Rendered(out, "Receivables")
RecvRows == out.view.receivable_df

RECURSIVE SumOver(_, _, _)
SumOver(table, keys, field) ==
    IF Len(keys) = 0 THEN 0
    ELSE table[Head(keys)][field] + SumOver(table, Tail(keys), field)

(* C1: in the aging computation every outstanding row with a due date gets  *)
(* exactly one of the five buckets, and every such row with                 *)
(* days_overdue <= 0, negative values included, gets "Not Due".             *)
C1_EveryDueRowBucketed ==
    RecvShown =>
        \A i \in DOMAIN RecvRows :
            NotNull(RecvRows[i].due_date) =>
                /\ NotNull(RecvRows[i].aging_bucket)
                /\ Val(RecvRows[i].aging_bucket) \in LabelSet
                /\ (Val(RecvRows[i].days_overdue) <= 0
                        => RecvRows[i].aging_bucket = Some("Not Due"))

(* The bucket edges as the specification words them *)
BucketOfDays(d) ==
    IF d = 0 THEN "Not Due"
    ELSE IF d \in 1..30 THEN "0-30 Days"
    ELSE IF d \in 31..60 THEN "31-60 Days"
    ELSE IF d \in 61..90 THEN "61-90 Days"
    ELSE "90+ Days"

(* C2: the bucket is a function of days_overdue alone, and for              *)
(* days_overdue >= 0 the edges are exact: 0 is "Not Due", 1..30 "0-30 Days",*)
(* 31..60 "31-60 Days", 61..90 "61-90 Days", 91 and more "90+ Days".        *)
C2_ExactEdges ==
    RecvShown =>
        \A i \in DOMAIN RecvRows :
            (NotNull(RecvRows[i].days_overdue) /\ Val(RecvRows[i].days_overdue) >= 0)
                => RecvRows[i].aging_bucket
                       = Some(BucketOfDays(Val(RecvRows[i].days_overdue)))

C2_Witness ==
    /\ RecvShown
    /\ \E i, j \in DOMAIN RecvRows :
          /\ RecvRows[i].days_overdue = Some(30)
          /\ RecvRows[i].aging_bucket = Some("0-30 Days")
          /\ RecvRows[j].days_overdue = Some(91)
          /\ RecvRows[j].aging_bucket = Some("90+ Days")

(* C3: a row with no due_date is in no aging bucket and adds neither its    *)
(* amount nor its count to any row of the aging summary.                    *)
C3_NullDueExcluded ==
    RecvShown =>
        LET dated == SelectSeq(RecvRows, LAMBDA r :
                        NotNull(r.due_date) /\ NotNull(r.aging_bucket))
        IN  /\ \A i \in DOMAIN RecvRows :
                  IsNull(RecvRows[i].due_date) => IsNull(RecvRows[i].aging_bucket)
            /\ SumOver(out.view.aging_summary, AgingLabels, "amount")
                   = SumCol(dated, "amount")
            /\ SumOver(out.view.aging_summary, AgingLabels, "count")
                   = CountCol(dated, "voucher_no")

C3_Witness ==
    /\ RecvShown
    /\ \E i, j \in DOMAIN RecvRows :
          /\ IsNull(RecvRows[i].due_date)
          /\ RecvRows[j].aging_bucket = Some("31-60 Days")
    /\ SumOver(out.view.aging_summary, AgingLabels, "count") = 1

(* C4: an outstanding row with days_overdue > 0 is always part of           *)
(* overdue_amount, which is the sum of amount over exactly the rows whose   *)
(* bucket is one of the four overdue buckets.                               *)
C4_OverdueAmount ==
    RecvShown =>
        LET late == SelectSeq(RecvRows, LAMBDA r :
                        NotNull(r.aging_bucket) /\ Val(r.aging_bucket) \in OverdueLabels)
        IN  /\ \A i \in DOMAIN RecvRows :
                  (NotNull(RecvRows[i].days_overdue) /\ Val(RecvRows[i].days_overdue) > 0)
                      => (NotNull(RecvRows[i].aging_bucket)
                            /\ Val(RecvRows[i].aging_bucket) \in OverdueLabels)
            /\ out.view.overdue_amount = SumCol(late, "amount")

C4_Witness ==
    /\ RecvShown
    /\ \E i, j \in DOMAIN RecvRows :
          /\ RecvRows[i].status = Some("Pending")
          /\ RecvRows[i].days_overdue = Some(45)
          /\ RecvRows[i].aging_bucket = Some("31-60 Days")
          /\ RecvRows[i].amount = Some(2)
          /\ RecvRows[j].days_overdue = Some(0)
    /\ out.view.overdue_amount = 2

-----------------------------------------------------------------------------
(* Properties of the guards of the report pages *)

(* A displayed quotient that is a number or the text N/A *)
Defined(q) == q.kind \in {"num", "N/A"}

(* C5: every displayed ratio whose denominator is zero shows 0 or the text  *)
(* N/A: the current ratio and the debt-to-equity of the MD Report and of    *)
(* the Balance Sheet and the overdue share of Receivables are never         *)
(* infinite and never NaN                                                   *)
C5_DivisionGuard ==
    /\ Rendered(out, "MD Report") =>
            Defined(out.view.current_ratio) /\ Defined(out.view.debt_to_equity)
    /\ Rendered(out, "Balance Sheet") =>
            Defined(out.view.current_ratio) /\ Defined(out.view.debt_to_equity)
    /\ Rendered(out, "Receivables") => Defined(out.view.overdue_delta)

DateRangePages == {MenuCashbook, MenuBankbook, MenuLiability, MenuIncome, MenuExpense}

(* The widgets of the last run returned a range whose start is after its end *)
ReversedRange ==
    \/ /\ out.choice \in DateRangePages
       /\ Len(out.args.date_range) = 2
       /\ out.args.date_range[1] > out.args.date_range[2]
    \/ /\ out.choice = MenuMDReport
       /\ NotNull(out.args.start_date) /\ NotNull(out.args.end_date)
       /\ Val(out.args.start_date) > Val(out.args.end_date)

(* C6: on a date range [s, e] with s > e no report that filters by a date   *)
(* range displays metrics or tables computed from the reversed range        *)
C6_ReversedRangeRejected == ReversedRange => ~out.hasView

(* The rows of `rows' whose `col' is a date on a day of [s, e] *)
OnDays(rows, col, s, e) ==
    SelectSeq(rows, LAMBDA r :
        NotNull(r[col]) /\ s <= DateOf(Val(r[col])) /\ DateOf(Val(r[col])) <= e)

(* The rows a page classifies into its bucket before it filters by date *)
BucketOf(c, rows) ==
    CASE c = MenuCashbook ->
            SelectSeq(rows, LAMBDA r : ContainsNoCase(r.payment_method, {"cash", "ca"}))
      [] c = MenuBankbook ->
            SelectSeq(rows, LAMBDA r : ContainsNoCase(r.payment_method, {"bank"}))
      [] c = MenuLiability -> liability_df(rows)
      [] c = MenuIncome -> income_df(rows)
      [] c = MenuExpense -> expense_df(rows)
      [] OTHER -> rows

(* C7: a date-range filter [start, end] keeps exactly the rows dated on a   *)
(* calendar day d with start <= d <= end, whatever the time of day, and     *)
(* drops the rows without a date: the payment_date filters of Cashbook,     *)
(* Bankbook, Income and Expense and the date filter of the MD Report        *)
C7_InclusiveCalendarDays ==
    /\ ( /\ out.hasView
         /\ out.choice \in {MenuCashbook, MenuBankbook, MenuIncome, MenuExpense}
         /\ Len(out.args.date_range) = 2 )
       => out.view.filtered =
            OnDays(BucketOf(out.choice, ledger.rows), "payment_date",
                   out.args.date_range[1], out.args.date_range[2])
    /\ Rendered(out, "MD Report")
       => out.view.filtered =
            OnDays(ledger.rows, "date", Val(out.args.start_date), Val(out.args.end_date))

(* The column a page's date range applies to *)
DateColOf(c) == IF c = MenuLiability THEN "due_date" ELSE "payment_date"

(* The rows left to the page of the last run by its bucket, its date range  *)
(* and its membership filters                                               *)
RowsLeft ==
    CASE out.choice \in DateRangePages ->
            DateFilter(BucketOf(out.choice, ledger.rows), DateColOf(out.choice),
                       out.args.date_range)
      [] out.choice = MenuPayables -> SelectSeq(ledger.rows, IsPayable)
      [] out.choice = MenuReceivables -> SelectSeq(ledger.rows, IsReceivable)
      [] OTHER -> ledger.rows

(* The last run was of a report page on a ledger with rows, and the date    *)
(* widget of the page had a date to start from                              *)
ReportRan ==
    /\ out.choice \in DateRangePages \cup {MenuPayables, MenuReceivables}
    /\ Len(ledger.rows) > 0
    /\ out.choice \in DateRangePages =>
            \/ Len(BucketOf(out.choice, ledger.rows)) = 0
            \/ ~NoDates(BucketOf(out.choice, ledger.rows), DateColOf(out.choice))

(* C9: a report whose bucket, date range and membership filters leave zero  *)
(* rows shows an informational message and raises no error, also when the   *)
(* date range removed the rows of a bucket that was not empty               *)
C9_NoDataState ==
    (ReportRan /\ Len(RowsLeft) = 0) =>
        /\ out.exc = ""
        /\ \E m \in out.msgs : m.kind \in {"info", "warning", "success"}

(* The columns a page declares as required before it computes *)
RequiredOf(c) ==
    CASE c = MenuBankbook -> BankbookRequired
      [] c = MenuLiability -> LiabilityRequired
      [] c = MenuIncome -> IncomeRequired
      [] c = MenuExpense -> ExpenseRequired
      [] c = MenuReceivables -> {"party_type", "status", "amount"}
      [] c = MenuBalance -> BalanceRequired
      [] OTHER -> {}

(* C8: when columns a report requires are absent from the ledger the report *)
(* is not computed and an error names exactly the missing columns           *)
C8_MissingColumnsNamed ==
    (fileExists /\ out.choice # "" /\ ~(RequiredOf(out.choice) \subseteq ledger.cols)) =>
        /\ ~out.hasView
        /\ out.exc = ""
        /\ \E m \in out.msgs :
                m.kind = "error" /\ m.cols = RequiredOf(out.choice) \ ledger.cols

(* C10: without the workbook a run shows the load error and enters no page: *)
(* nothing is computed from the empty table load_data returns instead       *)
C10_LoadErrorIsFatal ==
    (~fileExists /\ out.choice # "") =>
        /\ LoadErrorMsg \in out.msgs
        /\ out.branch = "Fallback"
        /\ out.exc = ""

-----------------------------------------------------------------------------
(* Properties of the session *)

(* C11: over any sequence of runs the file is read at most once, and every  *)
(* call of load_data returns the table the first call returned              *)
C11_ReadOnce ==
    /\ reads <= 1
    /\ NotNull(first) => out.loaded = Val(first).frame

(* A run was served the first load while the file held another table *)
C11_Witness ==
    /\ NotNull(first)
    /\ reads = 1
    /\ out.choice # ""
    /\ out.disk # Val(first).frame
    /\ out.loaded = Val(first).frame

(* C12: no report page changes the loaded ledger: after a run the table in  *)
(* df has the columns, the rows and the cell values load_data returned      *)
C12_LedgerUntouched == out.choice # "" => out.df = out.loaded

-----------------------------------------------------------------------------
(* Properties of the totals *)

(* The amounts of `rows' with every missing or unreadable amount taken as 0 *)
RECURSIVE AmountsAsZero(_)
AmountsAsZero(rows) ==
    IF Len(rows) = 0 THEN 0
    ELSE (IF Len(Head(rows).amount) = 1 THEN Head(rows).amount[1] ELSE 0)
         + AmountsAsZero(Tail(rows))

(* C13: a missing or unparseable value of a summed numeric column counts as *)
(* 0 and no such value reaches a metric; on Payables and Receivables the    *)
(* total over amount is the sum of the outstanding rows' amounts so read    *)
C13_MissingAsZero ==
    /\ ( /\ out.choice = MenuPayables
         /\ Len(SelectSeq(out.loaded.rows, IsPayable)) > 0 )
       => /\ out.hasView
          /\ out.view.total_payable = AmountsAsZero(SelectSeq(out.loaded.rows, IsPayable))
    /\ ( /\ out.choice = MenuReceivables
         /\ Len(SelectSeq(out.loaded.rows, IsReceivable)) > 0 )
       => /\ out.hasView
          /\ out.view.total_receivable =
                AmountsAsZero(SelectSeq(out.loaded.rows, IsReceivable))

(* A status that holds "paid" or "received", in any case *)
Settled(r) ==
    NotNull(r.status) /\ ContainsAny(Lower(Val(r.status)), {"paid", "received"})

Open(rows, party) ==
    SelectSeq(rows, LAMBDA r : r.party_type = Some(party) /\ ~Settled(r))

(* C14: a row whose status holds "paid" or "received" is settled on all     *)
(* three pages alike: it is in neither outstanding set and in neither       *)
(* total of the MD Report                                                   *)
C14_SettledEverywhere ==
    /\ Rendered(out, "Payables") =>
            \A i \in 1..Len(out.view.payable_df) : ~Settled(out.view.payable_df[i])
    /\ Rendered(out, "Receivables") =>
            \A i \in 1..Len(out.view.receivable_df) : ~Settled(out.view.receivable_df[i])
    /\ Rendered(out, "MD Report") =>
            /\ out.view.total_payables = SumCol(Open(out.view.filtered, "Vendor"), "amount")
            /\ out.view.total_receivables =
                    SumCol(Open(out.view.filtered, "Customer"), "amount")

(* The class of an account_type of the charts of accounts *)
KindOf(t) ==
    CASE t = Some("Asset") -> "asset"
      [] t = Some(" liability ") -> "liability"
      [] t \in {Some("Equity"), Some("Capital"), Some("Retained Earnings")} -> "equity"
      [] OTHER -> "other"

OfKind(rows, k) == SelectSeq(rows, LAMBDA r : KindOf(r.account_type) = k)

(* C15: the Balance Sheet classifies the rows of the snapshot by trimmed,   *)
(* lower-cased account_type, capital and retained earnings counting as      *)
(* equity; total_equity is the sum over the equity rows when there is one   *)
(* and total_assets - total_liabilities when there is none, with no error   *)
C15_EquityFallback ==
    LET rows == SnapshotRows(out.loaded, out.args)
        assets == SumCol(OfKind(rows, "asset"), "amount")
        debts == SumCol(OfKind(rows, "liability"), "amount")
    IN  ( /\ out.choice = MenuBalance
          /\ BalanceRequired \subseteq out.loaded.cols
          /\ \E i \in 1..Len(rows) : KindOf(rows[i].account_type) # "other" )
        =>  /\ out.hasView
            /\ out.view.total_assets = assets
            /\ out.view.total_liabilities = debts
            /\ out.view.total_equity =
                    IF Len(OfKind(rows, "equity")) > 0
                    THEN SumCol(OfKind(rows, "equity"), "amount")
                    ELSE assets - debts
            /\ out.exc = ""
            /\ \A m \in out.msgs : m.kind # "error"

(* C16: whatever the ledger and the choice, the run ends without an         *)
(* exception that nothing catches                                           *)
C16_NoUncaughtException == out.exc = ""

(* The Prophet calls of the last run were reached and failed *)
ProphetFailed ==
    /\ out.choice = MenuForecast
    /\ {"date", "debit", "credit"} \subseteq out.loaded.cols
    /\ ProphetDoes(daily_data(out.loaded.rows), out.args.prophet) # "ok"

(* C17: a failure of the forecasting library is caught and shown as an      *)
(* error: no forecast table, no success message, no exception               *)
C17_ForecastFailureCaught ==
    ProphetFailed =>
        /\ out.exc = ""
        /\ \E m \in out.msgs : m.kind = "error"
        /\ \A m \in out.msgs : m.kind # "success"
        /\ out.hasView => ~out.view.table

(* The library is installed and fit raised on a history of two days *)
C17_Witness ==
    /\ ProphetFailed
    /\ out.args.prophet = "fit"
    /\ Cardinality(DOMAIN daily_data(out.loaded.rows)) = 2
    /\ \E m \in out.msgs : m.kind = "error"

(* C18: every net figure displayed is the debit total minus the credit      *)
(* total of the rows it summarises: Home's cash balance, Dashboard's net    *)
(* balance, Cashbook's net cash flow, Forecast's daily net_cashflow         *)
C18_NetIsDebitMinusCredit ==
    /\ Rendered(out, "Home") =>
            out.view.total_cash
                = SumCol(out.loaded.rows, "debit") - SumCol(out.loaded.rows, "credit")
    /\ Rendered(out, "Dashboard") =>
            out.view.balance
                = SumCol(out.loaded.rows, "debit") - SumCol(out.loaded.rows, "credit")
    /\ Rendered(out, "Cashbook") =>
            out.view.net_flow
                = SumCol(out.view.filtered, "debit") - SumCol(out.view.filtered, "credit")
    /\ (Rendered(out, "Forecast") /\ out.view.table) =>
            \A t \in DOMAIN out.view.daily_data :
                out.view.daily_data[t].net_cashflow
                    = out.view.daily_data[t].total_debit - out.view.daily_data[t].total_credit

(* The rows of `rows' dated in month m *)
InMonth(rows, m) ==
    SelectSeq(rows, LAMBDA r : NotNull(r.date) /\ MonthOf(Val(r.date)) = m)

(* C19: the monthly aggregation has one group for each calendar month in    *)
(* which a row is dated, with the debit sum and the credit sum of that      *)
(* month's rows; a row without a date is in no group                        *)
C19_MonthlyGroups ==
    (out.hasView /\ out.choice \in {MenuHome, MenuDashboard} /\ out.view.hasMonthly) =>
        LET rows == out.loaded.rows
            months == {MonthOf(Val(rows[i].date)) :
                          i \in {j \in 1..Len(rows) : NotNull(rows[j].date)}}
        IN  /\ DOMAIN out.view.monthly_summary = {Some(m) : m \in months}
            /\ \A m \in months :
                /\ out.view.monthly_summary[Some(m)].debit = SumCol(InMonth(rows, m), "debit")
                /\ out.view.monthly_summary[Some(m)].credit = SumCol(InMonth(rows, m), "credit")

(* The rows of the liability ledgers that belong to the bucket *)
InLiabilityBucket(r) ==
    \/ r.account_head \in {Some("Long Term Liability"), Some("bank LOAN")}
    \/ r.sub_category \in {Some("loan repayment"), Some("Other LIABILITY")}
    \/ r.party_type \in {Some("managing director"), Some("The Managing Director")}

(* C20: the liability bucket holds a row exactly when account_head holds    *)
(* Liability or Loan, or sub_category holds Loan or Liability, or           *)
(* party_type holds Managing Director, in any case, a missing field never   *)
(* matching; "Long Term Liability" is in, "Salary" with no other match out  *)
C20_LiabilityBucket ==
    /\ liability_df(ledger.rows) = SelectSeq(ledger.rows, InLiabilityBucket)
    /\ (Rendered(out, "Liability") /\ Len(out.args.date_range) # 2) =>
            out.view.filtered = SelectSeq(out.loaded.rows, InLiabilityBucket)

(* The page listed a Long Term Liability and left a Salary out *)
C20_Witness ==
    /\ Rendered(out, "Liability")
    /\ Len(out.args.date_range) # 2
    /\ Len(out.loaded.rows) = 2
    /\ Len(out.view.filtered) = 1
    /\ out.view.filtered[1].account_head = Some("Long Term Liability")
    /\ \E i \in 1..2 : /\ out.loaded.rows[i].account_head = Some("Salary")
                       /\ ~InLiabilityBucket(out.loaded.rows[i])

-----------------------------------------------------------------------------
(* Properties of the Cashbook period comparison *)

(* The Cashbook compared the selected range with the period before it *)
Compared == Rendered(out, "Cashbook") /\ Len(out.args.date_range) = 2

(* C21: for a selected range [s, e] the previous period is                  *)
(* [s - (e - s + 1), s - 1]: as many days as the range, ending the day      *)
(* before s, and sharing no day with the range                              *)
C21_PreviousPeriod ==
    Compared =>
        LET s == out.args.date_range[1]
            e == out.args.date_range[2]
            ps == Val(out.view.prev_start)
            pe == Val(out.view.prev_end)
        IN  /\ out.view.compared
            /\ ps = s - (e - s + 1)
            /\ pe = s - 1
            /\ pe - ps + 1 = e - s + 1
            /\ \A d \in ps..pe : d \notin s..e

(* A range of two days was compared with the two days before it *)
C21_Witness ==
    /\ Compared
    /\ out.args.date_range[1] < out.args.date_range[2]
    /\ Val(out.view.prev_end) - Val(out.view.prev_start) = 1

(* The quotient q is the number n / d *)
IsRatio(q, n, d) == q.kind = "num" /\ q.num * d = n * q.den

(* C22: a previous-period total of 0 gives the percent change 0 and raises  *)
(* nothing; any other previous total gives (current - previous) / previous  *)
(* * 100, for debit and for credit                                          *)
C22_PercentChange ==
    Compared =>
        LET v == out.view
        IN  /\ out.exc = ""
            /\ v.prev_debit = 0 => IsRatio(v.debit_change, 0, 1)
            /\ v.prev_credit = 0 => IsRatio(v.credit_change, 0, 1)
            /\ v.prev_debit # 0 =>
                    IsRatio(v.debit_change, (v.total_debit - v.prev_debit) * 100, v.prev_debit)
            /\ v.prev_credit # 0 =>
                    IsRatio(v.credit_change, (v.total_credit - v.prev_credit) * 100, v.prev_credit)

(* The cash entries of `rows' paid on the days lo..hi *)
CashPaidIn(rows, lo, hi) ==
    SelectSeq(rows, LAMBDA r :
        /\ r.payment_method = Some("Cash")
        /\ NotNull(r.payment_date)
        /\ DateOf(Val(r.payment_date)) \in lo..hi)

(* C25: the previous-period totals are sums over the cash rows of the       *)
(* previous period, as the current totals are sums over the cash rows of    *)
(* the selected range; a non-cash row changes neither                       *)
C25_SameBucket ==
    Compared =>
        LET dr == out.args.date_range
            now == CashPaidIn(out.loaded.rows, dr[1], dr[2])
            before == CashPaidIn(out.loaded.rows, dr[1] - (dr[2] - dr[1] + 1), dr[1] - 1)
        IN  /\ out.view.total_debit = SumCol(now, "debit")
            /\ out.view.total_credit = SumCol(now, "credit")
            /\ out.view.prev_debit = SumCol(before, "debit")
            /\ out.view.prev_credit = SumCol(before, "credit")

-----------------------------------------------------------------------------
(* Properties of the filters *)

(* C27: an empty selection in a membership filter is no restriction: with   *)
(* no party selected, the detail tables of Income and Expense keep every    *)
(* row of the subset the page summarises                                    *)
C27_EmptySelectionKeepsAll ==
    ( /\ out.hasView
      /\ out.choice \in {MenuIncome, MenuExpense}
      /\ out.args.party_filter = Some({}) )
    => out.view.detail = out.view.filtered

(* C26: with fewer than two dates selected a date-filtered report skips     *)
(* the date filter and ends as it does with a complete range: no later      *)
(* step, in the Cashbook export or the Bank Txns filters, reads a date that *)
(* is not there                                                             *)
C26_IncompleteRange ==
    ( /\ out.choice \in {MenuCashbook, MenuBankbook, MenuBankTxns}
      /\ Len(out.args.date_range) < 2
      /\ Dispatch(out.choice, out.loaded, today,
                  [out.args EXCEPT !.date_range = <<1, MaxDay>>]).exc = "" )
    => out.exc = ""

(* The bank entries of the ledgers: by payment method for the Bankbook, by  *)
(* account head for the Bank Txns                                           *)
BankBucketOf(c, rows) ==
    SelectSeq(rows, LAMBDA r :
        IF c = MenuBankbook THEN r.payment_method = Some("Bank Transfer")
        ELSE r.account_head = Some("Bank Loan"))

(* C28: in Bankbook and Bank Txns the headline totals are those of the      *)
(* whole bank bucket, whatever the selected date range, and the rows below  *)
(* them are those of the range                                              *)
C28_TotalsBeforeFilter ==
    (out.hasView /\ out.choice \in {MenuBankbook, MenuBankTxns}) =>
        LET bucket == BankBucketOf(out.choice, out.loaded.rows)
            dr == out.args.date_range
        IN  /\ out.view.total_deposit = SumCol(bucket, "bank_deposit")
            /\ out.view.total_withdrawal = SumCol(bucket, "bank_withdrawal")
            /\ out.view.net_flow = out.view.total_deposit - out.view.total_withdrawal
            /\ Len(dr) = 2 =>
                out.view.filtered = SelectSeq(bucket, LAMBDA r :
                    NotNull(r.payment_date) /\ DateOf(Val(r.payment_date)) \in dr[1]..dr[2])

(* A range that leaves one of two bank entries, under totals of both *)
C28_Witness ==
    /\ out.hasView
    /\ out.choice = MenuBankbook
    /\ Len(out.view.filtered) = 1
    /\ Len(BankBucketOf(MenuBankbook, out.loaded.rows)) = 2
    /\ out.view.total_deposit > SumCol(out.view.filtered, "bank_deposit")

-----------------------------------------------------------------------------
(* Properties of the navigation *)

(* The branch written for a menu entry *)
OwnBranch(c) ==
    CASE c = MenuSettings -> "Settings"
      [] c = MenuBalance -> "Balance Sheet"
      [] OTHER -> c

(* C24: on a ledger that is not empty every entry of the menu runs its own  *)
(* branch, the balance sheet and the settings entries too, and never the    *)
(* final else with its "Please upload a valid CSV file" warning             *)
C24_EveryEntryHasItsPage ==
    (out.choice # "" /\ ~IsEmpty(out.loaded)) =>
        /\ out.branch = OwnBranch(out.choice)
        /\ FallbackMsg \notin out.msgs

-----------------------------------------------------------------------------
(* Properties of the financial position *)

(* The percentages of a breakdown add up to `pct' per cent of `total' *)
RECURSIVE SumNum(_, _)
SumNum(summary, names) ==
    IF names = {} THEN 0
    ELSE LET n == CHOOSE x \in names : TRUE
         IN  summary[n].percentage.num + SumNum(summary, names \ {n})

AddsUp(summary, class, total) ==
    IF Len(class) = 0 THEN TRUE
    ELSE IF total # 0
    THEN /\ \A n \in DOMAIN summary :
                summary[n].percentage.kind = "num" /\ summary[n].percentage.den = total
         /\ SumNum(summary, DOMAIN summary) = 100 * total
    ELSE \A n \in DOMAIN summary : IsRatio(summary[n].percentage, 0, 1)

(* The Balance Sheet was chosen on a chart of accounts it can classify *)
SheetChosen ==
    /\ out.choice = MenuBalance
    /\ BalanceRequired \subseteq out.loaded.cols
    /\ \E i \in 1..Len(out.loaded.rows) :
            /\ NotNull(out.loaded.rows[i].account_type)
            /\ Lower(Strip(Val(out.loaded.rows[i].account_type)))
                    \in {"asset", "liability", "equity", "capital", "retained earnings"}
            /\ "date" \in out.loaded.cols => NotNull(out.loaded.rows[i].date)

(* C23: in the Balance Sheet breakdowns by account_name the percentages of  *)
(* one class add up to 100 when the class total is not zero and are all 0   *)
(* when it is zero                                                          *)
C23_PercentagesAddUp ==
    SheetChosen =>
        /\ out.hasView
        /\ AddsUp(out.view.asset_summary, OfKind(out.loaded.rows, "asset"),
                  out.view.total_assets)
        /\ AddsUp(out.view.liability_summary, OfKind(out.loaded.rows, "liability"),
                  out.view.total_liabilities)
        /\ AddsUp(out.view.equity_summary, OfKind(out.loaded.rows, "equity"),
                  out.view.total_equity)

(* C30: the position displayed satisfies Assets = Liabilities + Equity, in  *)
(* the Financial Position Summary of the MD Report and in the summary       *)
(* table of the Balance Sheet                                               *)
C30_AccountingIdentity ==
    /\ Rendered(out, "MD Report") =>
            out.view.assets = out.view.liabilities + out.view.equity
    /\ SheetChosen =>
            /\ out.hasView
            /\ out.view.total_assets = out.view.total_liabilities + out.view.total_equity

-----------------------------------------------------------------------------
(* Properties of the aging summary *)

(* C29: the five rows of aging_summary partition the outstanding            *)
(* receivables: their amounts add up to total_receivable and their counts   *)
(* to the number of unpaid invoices                                         *)
C29_AgingPartition ==
    RecvShown =>
        /\ SumOver(out.view.aging_summary, AgingLabels, "amount") = out.view.total_receivable
        /\ SumOver(out.view.aging_summary, AgingLabels, "count") = out.view.unpaid_invoices

=============================================================================
